---- MODULE Spec2Model ----
(***************************************************************************)
(* Delivery subsystem of the time-lapse client (src/客户端/time-lapse.py):  *)
(* camera_task offers captured items to photo_queue, upload_task_loop      *)
(* hands them to a ThreadPoolExecutor, upload_worker delivers them live or *)
(* persists them through DiskManager.save, and DiskManager.flush_to_server *)
(* (called by startup_logic and flush_trigger_loop) drains the store.      *)
(*                                                                         *)
(* Every thread is a process with a program counter; one action is one     *)
(* step between two points where another thread can run.                   *)
(***************************************************************************)
EXTENDS Integers, Sequences, FiniteSets, TLC

(***************************************************************************)
(* Bounds of the model and the program's constants.                        *)
(***************************************************************************)
\* files left in the store directory by an earlier run of the process
MaxOld == 1
\* capture cycles of camera_task that the model follows
MaxItems == 3
\* MAX_CACHED_PHOTOS (100 in the source), scaled down
MAX_CACHED_PHOTOS == 2
\* UPLOAD_WORKERS (4 in the source), scaled down
UPLOAD_WORKERS == 2
UPLOAD_RETRIES == 2
FLUSH_RETRIES_PER_FILE == 3
\* DISK_RESERVE_RATIO = 0.05, in per cent
DISK_RESERVE_PCT == 5
\* statvfs: f_blocks, and the blocks used by everything but the store
F_BLOCKS == 20
FsOther == 17
\* exposure times in 1/100 s: MIN_EXPOSURE = 0.25, MAX_EXPOSURE = 112.0
MIN_EXPOSURE == 25
MAX_EXPOSURE == 11200
TARGET_BRIGHTNESS == 64
BRIGHTNESS_DEADBAND == 24
\* STEP_SPEED_UP = 0.9 and STEP_SPEED_DOWN = 0.3, in per cent
STEP_SPEED_UP_PCT == 90
STEP_SPEED_DOWN_PCT == 30
BRIGHTNESS_LOW_THRESHOLD == 48
BRIGHTNESS_HIGH_THRESHOLD == 155
\* adjustment cycles counted under a fixed scene
SettleBound == 17

OldItems == 1..MaxOld
NewItems == (MaxOld + 1)..(MaxOld + MaxItems)
Items == 1..(MaxOld + MaxItems)
Workers == 1..UPLOAD_WORKERS
Callers == {"st", "tr"}

\* len(item["data"]) in blocks: the payloads differ in size
Size(i) == 1 + (i % 2)

VARIABLES
    captured,       \* camera_task: capture cycles completed
    photo_queue,    \* Queue(maxsize=MAX_CACHED_PHOTOS)
    dropped,        \* items discarded at put_nowait (history)
    execQ,          \* the ThreadPoolExecutor's own work queue
    wpc, wItem,     \* upload_worker: position and item of each pool thread
    wDeg,           \* the worker read degraded_mode as True (holds degraded_lock)
    wAttempt,       \* upload_once calls made for the current item
    wFiles,         \* _cleanup's sorted listing
    wDelFail,       \* an os.remove of this _cleanup raised
    wWritten,       \* blocks written by this save
    degraded_mode, degraded_lock, flush_lock, op_lock, has_files,
    store,          \* the store directory: content of each entry
    mtime, clock,   \* os.path.getmtime of each entry, and the time
    delivered,      \* upload_once returned True for the whole payload (history)
    evicted,        \* removed by _cleanup (history)
    writeFailed,    \* save's write raised (history)
    fpc,            \* startup_logic / flush_trigger_loop: position
    fNames, fTarget, fAttempt,   \* flush_to_server: names, name, attempt
    dLast,          \* mtime, as sorted by, of the entry the running drain removed last
    dCur,           \* mtime, as sorted by, of the entry the drain is delivering (-1: none)
    dTried,         \* the running drain called upload_once (history)
    dFailed,        \* an upload_once of the running drain returned False (history)
    dDirty,         \* a save ran while the drain ran (history)
    mode,           \* camera_task: "AUTO" or "MANUAL"
    current_exposure,   \* camera_task: exposure time, in 1/100 s
    active_res,     \* camera_task: the resolution the camera is configured for
    brightness,     \* what get_brightness returned in the last cycle (-1: none yet)
    scene,          \* the light: 0 while it changes freely, else a fixed scene
    settle          \* MANUAL cycles in a row under the fixed scene (history)

prodVars == <<captured, photo_queue, dropped, execQ>>
workVars == <<wpc, wItem, wDeg, wAttempt, wFiles, wDelFail, wWritten>>
lockVars == <<degraded_mode, degraded_lock, flush_lock, op_lock, has_files>>
diskVars == <<store, mtime, clock>>
histVars == <<delivered, evicted, writeFailed>>
callVars == <<fpc, fNames, fTarget, fAttempt>>
drainHist == <<dLast, dCur, dTried, dFailed, dDirty>>
flushVars == <<callVars, drainHist>>
camVars == <<mode, current_exposure, active_res, brightness, scene, settle>>
vars == <<prodVars, workVars, lockVars, diskVars, histVars, flushVars, camVars>>

(***************************************************************************)
(* The store directory and the filesystem.                                 *)
(***************************************************************************)
Present(st) == {i \in Items : st[i] # "none"}

RECURSIVE SumSize(_)
SumSize(S) ==
    IF S = {} THEN 0
    ELSE LET x == CHOOSE y \in S : TRUE IN Size(x) + SumSize(S \ {x})

\* st.f_bavail: a file that is open for writing ("partial") holds no block yet
Free(st) == F_BLOCKS - FsOther - SumSize({i \in Items : st[i] = "full"})

\* DiskManager._space_ok: free / total >= reserve_ratio
SpaceOk(st) == Free(st) * 100 >= DISK_RESERVE_PCT * F_BLOCKS

\* the listing sorted the other way round: greatest mtime first
RECURSIVE SortNewestFirst(_, _)
SortNewestFirst(S, mt) ==
    IF S = {} THEN <<>>
    ELSE LET m == CHOOSE x \in S : \A y \in S :
                      mt[x] > mt[y] \/ (mt[x] = mt[y] /\ x >= y)
         IN <<m>> \o SortNewestFirst(S \ {m}, mt)

\* files.sort() on (mtime, path) tuples: ascending mtime, then name
RECURSIVE SortByMtime(_, _)
SortByMtime(S, mt) ==
    IF S = {} THEN <<>>
    ELSE LET m == CHOOSE x \in S : \A y \in S :
                      mt[x] < mt[y] \/ (mt[x] = mt[y] /\ x <= y)
         IN <<m>> \o SortByMtime(S \ {m}, mt)

\* the sort reversed: the entry of greatest mtime comes first
Newest(S, mt) == {x \in S : \A y \in S : mt[x] >= mt[y]}

\* names.sort(key=getmtime); names[0]: a stable sort of os.listdir's arbitrary
\* order, so any entry of least mtime can come first
Oldest(S, mt) == {x \in S : \A y \in S : mt[x] <= mt[y]}

SeqToSet(s) == {s[k] : k \in 1..Len(s)}

(***************************************************************************)
(* Initial state: module level code, DiskManager.__init__ and the main     *)
(* block's degraded_mode = True.  The store directory holds any subset of  *)
(* the files of an earlier run, all of them older than the process.        *)
(***************************************************************************)
Init ==
    /\ captured = 0
    /\ photo_queue = <<>>
    /\ dropped = {}
    /\ execQ = <<>>
    /\ wpc = [w \in Workers |-> "idle"]
    /\ wItem = [w \in Workers |-> 0]
    /\ wDeg = [w \in Workers |-> FALSE]
    /\ wAttempt = [w \in Workers |-> 0]
    /\ wFiles = [w \in Workers |-> <<>>]
    /\ wDelFail = [w \in Workers |-> FALSE]
    /\ wWritten = [w \in Workers |-> 0]
    /\ degraded_mode = TRUE
    /\ degraded_lock = 0
    /\ flush_lock = "free"
    /\ op_lock = 0
    /\ \E S \in SUBSET OldItems :
          /\ store = [i \in Items |-> IF i \in S THEN "full" ELSE "none"]
          /\ \E mt \in [S -> 0..MaxOld] :
                mtime = [i \in Items |-> IF i \in S THEN mt[i] ELSE 0]
          /\ has_files = (S # {})
    /\ clock = MaxOld + 1
    /\ delivered = {}
    /\ evicted = {}
    /\ writeFailed = {}
    /\ fpc = [c \in Callers |-> IF c = "st" THEN "netwait" ELSE "poll"]
    /\ fNames = [c \in Callers |-> {}]
    /\ fTarget = [c \in Callers |-> 0]
    /\ fAttempt = [c \in Callers |-> 0]
    /\ dLast = -1
    /\ dCur = -1
    /\ dTried = FALSE
    /\ dFailed = FALSE
    /\ dDirty = FALSE
    /\ mode = "AUTO"
    /\ current_exposure = MIN_EXPOSURE
    /\ active_res = "none"
    /\ brightness = -1
    /\ scene = 0
    /\ settle = 0

(***************************************************************************)
(* camera_task and upload_task_loop.                                       *)
(***************************************************************************)
\* a full queue gives up its oldest item for the new one
Offer_DropOldest(q, item) ==
    IF Len(q) < MAX_CACHED_PHOTOS THEN Append(q, item) ELSE Append(Tail(q), item)

\* photo_queue.put_nowait: queue.Full when the queue holds maxsize items
Offer(q, item) ==
    IF Len(q) < MAX_CACHED_PHOTOS THEN Append(q, item) ELSE q

\* put() in place of put_nowait(): the cycle waits for room in photo_queue
CameraCycle_Blocking ==
    /\ captured < MaxItems
    /\ Len(photo_queue) < MAX_CACHED_PHOTOS
    /\ \E captureOk \in BOOLEAN :
          IF captureOk
          THEN /\ captured' = captured + 1
               /\ photo_queue' = Append(photo_queue, MaxOld + captured + 1)
               /\ UNCHANGED <<dropped, execQ>>
          ELSE UNCHANGED prodVars
    /\ UNCHANGED <<workVars, lockVars, diskVars, histVars, flushVars>>
    /\ UNCHANGED camVars

\* One cycle of camera_task's loop.  A capture error is caught by the loop's
\* except clause and only skips the cycle; otherwise the frame is offered to
\* photo_queue without waiting and discarded when the queue is full.
CameraCycle ==
    /\ captured < MaxItems
    /\ \E captureOk \in BOOLEAN :
          IF captureOk
          THEN LET item == MaxOld + captured + 1 IN
               /\ captured' = captured + 1
               /\ photo_queue' = Offer(photo_queue, item)
               /\ dropped' = IF photo_queue' = photo_queue
                             THEN dropped \cup {item} ELSE dropped
               /\ UNCHANGED execQ
          ELSE UNCHANGED prodVars
    /\ UNCHANGED <<workVars, lockVars, diskVars, histVars, flushVars>>
    /\ UNCHANGED camVars

\* upload_task_loop: photo_queue.get() then ex.submit(upload_worker, item).
\* submit never waits: the executor keeps the call in its own unbounded queue.
Dispatch ==
    /\ photo_queue # <<>>
    /\ execQ' = Append(execQ, Head(photo_queue))
    /\ photo_queue' = Tail(photo_queue)
    /\ UNCHANGED <<captured, dropped, workVars, lockVars, diskVars, histVars, flushVars>>
    /\ UNCHANGED camVars

(***************************************************************************)
(* upload_worker, run by the executor's threads.                           *)
(***************************************************************************)
\* degraded mode ignored: the worker tries the live upload first
W_check_TryFirst(w) ==
    /\ wpc[w] = "idle"
    /\ execQ # <<>>
    /\ degraded_lock = 0
    /\ wItem' = [wItem EXCEPT ![w] = Head(execQ)]
    /\ execQ' = Tail(execQ)
    /\ IF degraded_mode
       THEN /\ degraded_lock' = w
            /\ wDeg' = [wDeg EXCEPT ![w] = TRUE]
       ELSE UNCHANGED <<degraded_lock, wDeg>>
    /\ wpc' = [wpc EXCEPT ![w] = "upload"]
    /\ UNCHANGED <<captured, photo_queue, dropped, wAttempt, wFiles, wDelFail, wWritten,
                   degraded_mode, flush_lock, op_lock, has_files,
                   diskVars, histVars, flushVars>>
    /\ UNCHANGED camVars

\* A free pool thread takes the next submitted call and runs
\* with degraded_lock: if degraded_mode: disk_manager.save(item) ...
\* In degraded mode the lock stays held across save; otherwise it is released
\* at once and the live upload starts.
W_check(w) ==
    /\ wpc[w] = "idle"
    /\ execQ # <<>>
    /\ degraded_lock = 0
    /\ wItem' = [wItem EXCEPT ![w] = Head(execQ)]
    /\ execQ' = Tail(execQ)
    /\ IF degraded_mode
       THEN /\ degraded_lock' = w
            /\ wDeg' = [wDeg EXCEPT ![w] = TRUE]
            /\ wpc' = [wpc EXCEPT ![w] = "s_lock"]
       ELSE /\ UNCHANGED <<degraded_lock, wDeg>>
            /\ wpc' = [wpc EXCEPT ![w] = "upload"]
    /\ UNCHANGED <<captured, photo_queue, dropped, wAttempt, wFiles, wDelFail, wWritten,
                   degraded_mode, flush_lock, op_lock, has_files,
                   diskVars, histVars, flushVars>>
    /\ UNCHANGED camVars

\* for attempt in range(1, UPLOAD_RETRIES + 1): if upload_once(item, session): ...
\* The endpoint's answer is any of success and failure.
W_upload(w) ==
    /\ wpc[w] = "upload"
    /\ \E ok \in BOOLEAN :
          IF ok
          THEN /\ delivered' = delivered \cup {wItem[w]}
               /\ wpc' = [wpc EXCEPT ![w] = "idle"]
               /\ wItem' = [wItem EXCEPT ![w] = 0]
               /\ wAttempt' = [wAttempt EXCEPT ![w] = 0]
          ELSE /\ UNCHANGED <<delivered, wItem>>
               /\ wAttempt' = [wAttempt EXCEPT ![w] = @ + 1]
               /\ wpc' = [wpc EXCEPT ![w] =
                             IF wAttempt[w] + 1 < UPLOAD_RETRIES
                             THEN "upload" ELSE "s_lock"]
    /\ UNCHANGED <<prodVars, wDeg, wFiles, wDelFail, wWritten,
                   lockVars, diskVars, evicted, writeFailed, flushVars>>
    /\ UNCHANGED camVars

(***************************************************************************)
(* DiskManager.save, called by upload_worker: op_lock, _cleanup, the write.*)
(***************************************************************************)
\* with self.op_lock: and _cleanup's os.listdir, getmtime, files.sort()
S_lock(w) ==
    /\ wpc[w] = "s_lock"
    /\ op_lock = 0
    /\ op_lock' = w
    /\ wFiles' = [wFiles EXCEPT ![w] = SortByMtime(Present(store), mtime)]
    /\ wpc' = [wpc EXCEPT ![w] = "s_clean"]
    /\ dDirty' = (dDirty \/ flush_lock # "free")
    /\ UNCHANGED <<prodVars, wItem, wDeg, wAttempt, wDelFail, wWritten,
                   degraded_mode, degraded_lock, flush_lock, has_files,
                   diskVars, histVars, callVars, dLast, dCur, dTried, dFailed>>
    /\ UNCHANGED camVars

\* the loop leaves at once: nothing is ever deleted
CleanupStops_Always(files, st) == TRUE

\* for _, p in files: if self._space_ok(): break
CleanupStops(files, st) == files = <<>> \/ SpaceOk(st)

\* One iteration of _cleanup's loop: stop when the reserve is met or the list is
\* used up; otherwise os.remove the oldest name, and stop when that raises.
\* os.remove raises for a name the drain has removed since the listing, and it
\* can raise for one that is there (the operating system refuses).
S_clean(w) ==
    /\ wpc[w] = "s_clean"
    /\ IF CleanupStops(wFiles[w], store)
       THEN /\ wpc' = [wpc EXCEPT ![w] = "s_open"]
            /\ wFiles' = [wFiles EXCEPT ![w] = <<>>]
            /\ UNCHANGED <<wDelFail, diskVars, evicted>>
       ELSE LET p == Head(wFiles[w]) IN
            \E removeOk \in (IF store[p] = "none" THEN {FALSE} ELSE BOOLEAN) :
              IF ~removeOk
              THEN /\ wDelFail' = [wDelFail EXCEPT ![w] = TRUE]
                   /\ wpc' = [wpc EXCEPT ![w] = "s_open"]
                   /\ wFiles' = [wFiles EXCEPT ![w] = <<>>]
                   /\ UNCHANGED <<diskVars, evicted>>
              ELSE /\ store' = [store EXCEPT ![p] = "none"]
                   /\ mtime' = [mtime EXCEPT ![p] = 0]
                   /\ evicted' = evicted \cup {p}
                   /\ wFiles' = [wFiles EXCEPT ![w] = Tail(@)]
                   /\ UNCHANGED <<wpc, wDelFail, clock>>
    /\ UNCHANGED <<prodVars, wItem, wDeg, wAttempt, wWritten, lockVars,
                   delivered, writeFailed, flushVars>>
    /\ UNCHANGED camVars

\* open(p, "wb"): the name exists from here on, with no data yet.  Time moves on
\* by one tick while the file is written, so a file created right after another
\* one was written shares its mtime with it until its own write ends.
S_open(w) ==
    /\ wpc[w] = "s_open"
    /\ store' = [store EXCEPT ![wItem[w]] = "partial"]
    /\ mtime' = [mtime EXCEPT ![wItem[w]] = clock]
    /\ clock' = clock + 1
    /\ wpc' = [wpc EXCEPT ![w] = "s_write"]
    /\ UNCHANGED <<prodVars, wItem, wDeg, wAttempt, wFiles, wDelFail, wWritten,
                   lockVars, histVars, flushVars>>
    /\ UNCHANGED camVars

\* f.write(item["data"]); self.has_files = True; op_lock is released on return.
\* The write raises (no space left) when the payload is larger than the free
\* space; a file the drain removed since the open is written to no name.
S_write(w) ==
    /\ wpc[w] = "s_write"
    /\ LET i == wItem[w] IN
       IF Size(i) <= Free(store)
       THEN /\ store' = [store EXCEPT ![i] = IF @ = "partial" THEN "full" ELSE @]
            /\ mtime' = [mtime EXCEPT ![i] = IF store[i] = "partial" THEN clock ELSE @]
            /\ wWritten' = [wWritten EXCEPT ![w] =
                               IF store[i] = "partial" THEN Size(i) ELSE 0]
            /\ has_files' = TRUE
            /\ UNCHANGED writeFailed
       ELSE /\ writeFailed' = writeFailed \cup {i}
            /\ UNCHANGED <<store, mtime, wWritten, has_files>>
    /\ op_lock' = 0
    /\ wpc' = [wpc EXCEPT ![w] = "saved"]
    /\ UNCHANGED <<prodVars, wItem, wDeg, wAttempt, wFiles, wDelFail,
                   degraded_mode, degraded_lock, flush_lock, clock,
                   delivered, evicted, flushVars>>
    /\ UNCHANGED camVars

\* the degraded path takes degraded_lock once more before it returns
W_after_Relock(w) ==
    /\ wpc[w] = "saved"
    /\ degraded_lock = 0
    /\ degraded_mode' = (degraded_mode \/ ~wDeg[w])
    /\ wpc' = [wpc EXCEPT ![w] = "idle"]
    /\ wItem' = [wItem EXCEPT ![w] = 0]
    /\ wDeg' = [wDeg EXCEPT ![w] = FALSE]
    /\ wAttempt' = [wAttempt EXCEPT ![w] = 0]
    /\ wDelFail' = [wDelFail EXCEPT ![w] = FALSE]
    /\ wWritten' = [wWritten EXCEPT ![w] = 0]
    /\ UNCHANGED <<prodVars, wFiles, degraded_lock, flush_lock, op_lock, has_files,
                   diskVars, histVars, flushVars>>
    /\ UNCHANGED camVars

\* the normal path returns after save without touching degraded_mode
W_after_KeepMode(w) ==
    /\ wpc[w] = "saved"
    /\ IF wDeg[w]
       THEN /\ degraded_lock' = 0
            /\ UNCHANGED degraded_mode
       ELSE /\ degraded_lock = 0
            /\ UNCHANGED <<degraded_mode, degraded_lock>>
    /\ wpc' = [wpc EXCEPT ![w] = "idle"]
    /\ wItem' = [wItem EXCEPT ![w] = 0]
    /\ wDeg' = [wDeg EXCEPT ![w] = FALSE]
    /\ wAttempt' = [wAttempt EXCEPT ![w] = 0]
    /\ wDelFail' = [wDelFail EXCEPT ![w] = FALSE]
    /\ wWritten' = [wWritten EXCEPT ![w] = 0]
    /\ UNCHANGED <<prodVars, wFiles, flush_lock, op_lock, has_files, diskVars,
                   histVars, flushVars>>
    /\ UNCHANGED camVars

\* After save returned.  Degraded path: photo_queue.task_done(), return, and the
\* with block releases degraded_lock.  Normal path: with degraded_lock:
\* degraded_mode = True, then task_done().
W_after(w) ==
    /\ wpc[w] = "saved"
    /\ IF wDeg[w]
       THEN /\ degraded_lock' = 0
            /\ UNCHANGED degraded_mode
       ELSE /\ degraded_lock = 0
            /\ degraded_mode' = TRUE
            /\ UNCHANGED degraded_lock
    /\ wpc' = [wpc EXCEPT ![w] = "idle"]
    /\ wItem' = [wItem EXCEPT ![w] = 0]
    /\ wDeg' = [wDeg EXCEPT ![w] = FALSE]
    /\ wAttempt' = [wAttempt EXCEPT ![w] = 0]
    /\ wDelFail' = [wDelFail EXCEPT ![w] = FALSE]
    /\ wWritten' = [wWritten EXCEPT ![w] = 0]
    /\ UNCHANGED <<prodVars, wFiles, flush_lock, op_lock, has_files, diskVars,
                   histVars, flushVars>>
    /\ UNCHANGED camVars

(***************************************************************************)
(* DiskManager.flush_to_server, run by startup_logic ("st") and by         *)
(* flush_trigger_loop ("tr").                                              *)
(***************************************************************************)
\* some worker is inside DiskManager.save
SaveRunning == \E w \in Workers : wpc[w] \in {"s_clean", "s_open", "s_write"}

\* where the caller goes on when flush_to_server returns
Ret(c) == IF c = "st" THEN "finished" ELSE "poll"

\* a call that ends without releasing flush_lock
DrainEnds_KeepLock(c, to) ==
    /\ UNCHANGED flush_lock
    /\ fpc' = [fpc EXCEPT ![c] = to]
    /\ fNames' = [fNames EXCEPT ![c] = {}]
    /\ fTarget' = [fTarget EXCEPT ![c] = 0]
    /\ fAttempt' = [fAttempt EXCEPT ![c] = 0]
    /\ dLast' = -1
    /\ dCur' = -1
    /\ dTried' = FALSE
    /\ dFailed' = FALSE
    /\ dDirty' = FALSE

\* a call that ends: finally: flush_lock.release(), and its locals are gone
DrainEnds(c, to) ==
    /\ flush_lock' = "free"
    /\ fpc' = [fpc EXCEPT ![c] = to]
    /\ fNames' = [fNames EXCEPT ![c] = {}]
    /\ fTarget' = [fTarget EXCEPT ![c] = 0]
    /\ fAttempt' = [fAttempt EXCEPT ![c] = 0]
    /\ dLast' = -1
    /\ dCur' = -1
    /\ dTried' = FALSE
    /\ dFailed' = FALSE
    /\ dDirty' = FALSE

\* startup_logic: the bounded wait for the network ends, by success or by
\* timeout; then: if disk_manager.has_files: disk_manager.flush_to_server(session)
St_Check ==
    /\ fpc["st"] = "netwait"
    /\ fpc' = [fpc EXCEPT !["st"] = IF has_files THEN "f_acq" ELSE "finished"]
    /\ UNCHANGED <<prodVars, workVars, lockVars, diskVars, histVars,
                   fNames, fTarget, fAttempt, drainHist>>
    /\ UNCHANGED camVars

\* flush_trigger_loop: if disk_manager.has_files: flush_to_server(session); sleep(10)
Tr_Poll ==
    /\ fpc["tr"] = "poll"
    /\ fpc' = [fpc EXCEPT !["tr"] = IF has_files THEN "f_acq" ELSE "poll"]
    /\ UNCHANGED <<prodVars, workVars, lockVars, diskVars, histVars,
                   fNames, fTarget, fAttempt, drainHist>>
    /\ UNCHANGED camVars

\* flush_lock taken without looking at who holds it
F_acquire_NoLock(c) ==
    /\ fpc[c] = "f_acq"
    /\ flush_lock' = c
    /\ fpc' = [fpc EXCEPT ![c] = "f_list"]
    /\ dDirty' = (\E w \in Workers : wpc[w] \in {"s_clean", "s_open", "s_write"})
    /\ UNCHANGED <<prodVars, workVars, degraded_mode, degraded_lock, op_lock, has_files,
                   diskVars, histVars, fNames, fTarget, fAttempt,
                   dLast, dCur, dTried, dFailed>>
    /\ UNCHANGED camVars

\* if not flush_lock.acquire(blocking=False): return
F_acquire(c) ==
    /\ fpc[c] = "f_acq"
    /\ IF flush_lock = "free"
       THEN /\ flush_lock' = c
            /\ fpc' = [fpc EXCEPT ![c] = "f_list"]
            /\ dDirty' = SaveRunning
       ELSE /\ fpc' = [fpc EXCEPT ![c] = Ret(c)]
            /\ UNCHANGED <<flush_lock, dDirty>>
    /\ UNCHANGED <<prodVars, workVars, degraded_mode, degraded_lock, op_lock, has_files,
                   diskVars, histVars, fNames, fTarget, fAttempt,
                   dLast, dCur, dTried, dFailed>>
    /\ UNCHANGED camVars

\* names = os.listdir(self.path); if not names: ...
F_list(c) ==
    /\ fpc[c] = "f_list"
    /\ fNames' = [fNames EXCEPT ![c] = Present(store)]
    /\ fpc' = [fpc EXCEPT ![c] = IF Present(store) = {} THEN "f_empty" ELSE "f_sort"]
    /\ UNCHANGED <<prodVars, workVars, lockVars, diskVars, histVars,
                   fTarget, fAttempt, drainHist>>
    /\ UNCHANGED camVars

\* self.has_files = False
F_empty(c) ==
    /\ fpc[c] = "f_empty"
    /\ has_files' = FALSE
    /\ fpc' = [fpc EXCEPT ![c] = "f_clear"]
    /\ UNCHANGED <<prodVars, workVars, degraded_mode, degraded_lock, flush_lock, op_lock,
                   diskVars, histVars, fNames, fTarget, fAttempt, drainHist>>
    /\ UNCHANGED camVars

\* the empty-listing branch returns and leaves degraded_mode alone
F_clear_KeepFlag(c) ==
    /\ fpc[c] = "f_clear"
    /\ degraded_lock = 0
    /\ DrainEnds(c, Ret(c))
    /\ UNCHANGED <<prodVars, workVars, degraded_mode, degraded_lock, op_lock, has_files,
                   diskVars, histVars>>
    /\ UNCHANGED camVars

\* with degraded_lock: degraded_mode = False; return
F_clear(c) ==
    /\ fpc[c] = "f_clear"
    /\ degraded_lock = 0
    /\ degraded_mode' = FALSE
    /\ DrainEnds(c, Ret(c))
    /\ UNCHANGED <<prodVars, workVars, degraded_lock, op_lock, has_files,
                   diskVars, histVars>>
    /\ UNCHANGED camVars

\* names.sort(key=lambda n: os.path.getmtime(...)); name = names[0].
\* getmtime raises for a name that _cleanup removed since the listing; the
\* exception is caught nowhere: finally releases flush_lock and the calling
\* thread ends.
F_sort(c) ==
    /\ fpc[c] = "f_sort"
    /\ IF \E n \in fNames[c] : store[n] = "none"
       THEN DrainEnds(c, "dead")
       ELSE /\ \E n \in Oldest(fNames[c], mtime) :
                  /\ fTarget' = [fTarget EXCEPT ![c] = n]
                  /\ dCur' = mtime[n]
            /\ fAttempt' = [fAttempt EXCEPT ![c] = 1]
            /\ fNames' = [fNames EXCEPT ![c] = {}]
            /\ fpc' = [fpc EXCEPT ![c] = "f_upload"]
            /\ UNCHANGED <<flush_lock, dLast, dTried, dFailed, dDirty>>
    /\ UNCHANGED <<prodVars, workVars, degraded_mode, degraded_lock, op_lock, has_files,
                   diskVars, histVars>>
    /\ UNCHANGED camVars

\* the attempts used up, the drain goes on with the next listing
AttemptFailed_GoesOn(c, uploadFailed) ==
    /\ dTried' = (dTried \/ uploadFailed)
    /\ dFailed' = (dFailed \/ uploadFailed)
    /\ UNCHANGED <<flush_lock, fNames, dLast, dCur, dDirty>>
    /\ IF fAttempt[c] < FLUSH_RETRIES_PER_FILE
       THEN /\ fAttempt' = [fAttempt EXCEPT ![c] = @ + 1]
            /\ fpc' = [fpc EXCEPT ![c] = "f_upload"]
            /\ UNCHANGED fTarget
       ELSE /\ fAttempt' = [fAttempt EXCEPT ![c] = 0]
            /\ fpc' = [fpc EXCEPT ![c] = "f_list"]
            /\ fTarget' = [fTarget EXCEPT ![c] = 0]

\* After a failed attempt: time.sleep(RETRY_DELAY) and the next attempt, or, the
\* attempts used up, "if not success: return".
AttemptFailed(c, uploadFailed) ==
    IF fAttempt[c] < FLUSH_RETRIES_PER_FILE
    THEN /\ fAttempt' = [fAttempt EXCEPT ![c] = @ + 1]
         /\ fpc' = [fpc EXCEPT ![c] = "f_upload"]
         /\ dTried' = (dTried \/ uploadFailed)
         /\ dFailed' = (dFailed \/ uploadFailed)
         /\ UNCHANGED <<flush_lock, fNames, fTarget, dLast, dCur, dDirty>>
    ELSE DrainEnds(c, Ret(c))

\* with open(p, "rb") as f: data = f.read()   (a missing file raises: caught)
\* if upload_once({"name": name, "data": data}, session): ... else: ...
\* The data read is what the file holds at that moment; the endpoint's answer
\* is any of success and failure.
F_upload(c) ==
    /\ fpc[c] = "f_upload"
    /\ IF store[fTarget[c]] = "none"
       THEN /\ AttemptFailed(c, FALSE)
            /\ UNCHANGED delivered
       ELSE \E ok \in BOOLEAN :
              IF ok
              THEN /\ delivered' = IF store[fTarget[c]] = "full"
                                   THEN delivered \cup {fTarget[c]} ELSE delivered
                   /\ fpc' = [fpc EXCEPT ![c] = "f_remove"]
                   /\ dTried' = TRUE
                   /\ UNCHANGED <<flush_lock, fNames, fTarget, fAttempt,
                                  dLast, dCur, dFailed, dDirty>>
              ELSE /\ AttemptFailed(c, TRUE)
                   /\ UNCHANGED delivered
    /\ UNCHANGED <<prodVars, workVars, degraded_mode, degraded_lock, op_lock, has_files,
                   diskVars, evicted, writeFailed>>
    /\ UNCHANGED camVars

\* os.remove(p); success = True; break   (a missing file raises: caught)
F_remove(c) ==
    /\ fpc[c] = "f_remove"
    /\ IF store[fTarget[c]] = "none"
       THEN /\ AttemptFailed(c, FALSE)
            /\ UNCHANGED diskVars
       ELSE /\ store' = [store EXCEPT ![fTarget[c]] = "none"]
            /\ dLast' = dCur
            /\ dCur' = -1
            /\ mtime' = [mtime EXCEPT ![fTarget[c]] = 0]
            /\ fpc' = [fpc EXCEPT ![c] = "f_list"]
            /\ fTarget' = [fTarget EXCEPT ![c] = 0]
            /\ fAttempt' = [fAttempt EXCEPT ![c] = 0]
            /\ UNCHANGED <<flush_lock, fNames, clock, dTried, dFailed, dDirty>>
    /\ UNCHANGED <<prodVars, workVars, degraded_mode, degraded_lock, op_lock, has_files,
                   histVars>>
    /\ UNCHANGED camVars

(***************************************************************************)
(* camera_task's exposure regulation.  Exposure times are whole numbers of *)
(* 1/100 s and the products of the source are rounded towards the old      *)
(* exposure, so a step is never larger than the source's.  CameraCycle     *)
(* follows what a cycle hands to delivery; ExposureCycle follows what the  *)
(* same cycle does to mode and current_exposure, which delivery never      *)
(* reads.                                                                  *)
(***************************************************************************)
Abs(x) == IF x < 0 THEN -x ELSE x
Min2(a, b) == IF a < b THEN a ELSE b
Max2(a, b) == IF a > b THEN a ELSE b

\* stat.mean[0] of the frames the model follows
Measured == {0, 30, 40, 41, 47, 48, 64, 87, 88, 100, 155, 156, 255}

\* a frame that does not decode counts as black
GetBrightness_FailClosed(mean, decodeOk) == IF decodeOk THEN mean ELSE 0

\* get_brightness: the mean of the frame, TARGET_BRIGHTNESS when decoding raises
GetBrightness(mean, decodeOk) == IF decodeOk THEN mean ELSE TARGET_BRIGHTNESS

\* Fixed scenes: the brightness of a frame as a function of its exposure.
\* 1-5 are proportional to the exposure up to saturation (1: target at 10 s,
\* 2: target at MIN_EXPOSURE, 3: target at MAX_EXPOSURE, 4: too dark at
\* MAX_EXPOSURE, 5: too bright at MIN_EXPOSURE); 6 rises steeply at 10 s.
Scenes == 1..6

SceneBrightness(sc, e) ==
    CASE sc = 1 -> Min2(255, (e * TARGET_BRIGHTNESS) \div 1000)
      [] sc = 2 -> Min2(255, (e * TARGET_BRIGHTNESS) \div MIN_EXPOSURE)
      [] sc = 3 -> Min2(255, (e * TARGET_BRIGHTNESS) \div MAX_EXPOSURE)
      [] sc = 4 -> Min2(255, e \div 1000)
      [] sc = 5 -> Min2(255, 4 * e)
      [] sc = 6 -> IF e < 1000 THEN (e * 30) \div 1000
                   ELSE Min2(255, 200 + e \div 1000)

\* no deadband: the exposure follows every error, however small
AdjustExposure_NoDeadband(e, b) ==
    LET desired == (e * TARGET_BRIGHTNESS) \div Max2(b, 1)
        delta == desired - e
        step == IF delta > 0
                THEN Min2(delta, (e * STEP_SPEED_UP_PCT) \div 100)
                ELSE Max2(delta, -((e * STEP_SPEED_DOWN_PCT) \div 100))
    IN Max2(MIN_EXPOSURE, Min2(MAX_EXPOSURE, e + step))

\* the new exposure is not held between MIN_EXPOSURE and MAX_EXPOSURE
AdjustExposure_NoClamp(e, b) ==
    IF Abs(b - TARGET_BRIGHTNESS) >= BRIGHTNESS_DEADBAND
    THEN LET desired == (e * TARGET_BRIGHTNESS) \div Max2(b, 1)
             delta == desired - e
         IN e + (IF delta > 0
                 THEN Min2(delta, (e * STEP_SPEED_UP_PCT) \div 100)
                 ELSE Max2(delta, -((e * STEP_SPEED_DOWN_PCT) \div 100)))
    ELSE e

\* the step towards the desired exposure is taken whole, whatever its size
AdjustExposure_NoSlewLimit(e, b) ==
    IF Abs(b - TARGET_BRIGHTNESS) >= BRIGHTNESS_DEADBAND
    THEN Max2(MIN_EXPOSURE,
              Min2(MAX_EXPOSURE, (e * TARGET_BRIGHTNESS) \div Max2(b, 1)))
    ELSE e

\* error = brightness - TARGET_BRIGHTNESS; if abs(error) >= BRIGHTNESS_DEADBAND: ...
\* current_exposure = max(MIN_EXPOSURE, min(MAX_EXPOSURE, current_exposure + delta))
AdjustExposure(e, b) ==
    IF Abs(b - TARGET_BRIGHTNESS) >= BRIGHTNESS_DEADBAND
    THEN LET desired == (e * TARGET_BRIGHTNESS) \div Max2(b, 1)
             delta == desired - e
             step == IF delta > 0
                     THEN Min2(delta, (e * STEP_SPEED_UP_PCT) \div 100)
                     ELSE Max2(delta, -((e * STEP_SPEED_DOWN_PCT) \div 100))
         IN Max2(MIN_EXPOSURE, Min2(MAX_EXPOSURE, e + step))
    ELSE e

\* one threshold for both directions: MANUAL ends as soon as the frame is not dark
Regulate_OneThreshold(m, e, b) ==
    IF b < BRIGHTNESS_LOW_THRESHOLD
    THEN <<"MANUAL", IF m = "AUTO" THEN MIN_EXPOSURE ELSE AdjustExposure(e, b)>>
    ELSE <<"AUTO", MIN_EXPOSURE>>

\* the "if mode == AUTO: ... else: ..." block: the new <<mode, current_exposure>>
Regulate(m, e, b) ==
    IF m = "AUTO"
    THEN IF b < BRIGHTNESS_LOW_THRESHOLD
         THEN <<"MANUAL", MIN_EXPOSURE>> ELSE <<"AUTO", e>>
    ELSE IF b > BRIGHTNESS_HIGH_THRESHOLD /\ e <= MIN_EXPOSURE
         THEN <<"AUTO", MIN_EXPOSURE>>
         ELSE <<"MANUAL", AdjustExposure(e, b)>>

\* One cycle of camera_task's loop, as far as mode and exposure go.  The camera
\* is configured when active_res differs from the configured resolution (which
\* nothing ever changes: in the first cycle only), and that sets mode to AUTO.
\* A capture that raises ends the cycle there.  In MANUAL mode under a fixed
\* scene the frame's brightness is the scene's at the exposure used; otherwise
\* it is any of the values followed.  The light may settle to a fixed scene
\* before any cycle and is fixed from then on.
ExposureCycle ==
    /\ \E sc \in (IF scene = 0 THEN {0} \cup Scenes ELSE {scene}),
          captureOk \in BOOLEAN, decodeOk \in BOOLEAN :
          LET m == IF active_res = "none" THEN "AUTO" ELSE mode
              means == IF m = "MANUAL" /\ sc # 0
                       THEN {SceneBrightness(sc, current_exposure)}
                       ELSE Measured
          IN /\ scene' = sc
             /\ active_res' = "set"
             /\ IF captureOk
                THEN \E mean \in means :
                       LET b == GetBrightness(mean, decodeOk)
                           r == Regulate(m, current_exposure, b)
                       IN /\ brightness' = b
                          /\ mode' = r[1]
                          /\ current_exposure' = r[2]
                          /\ settle' = IF sc # 0 /\ m = "MANUAL" /\ r[1] = "MANUAL"
                                           /\ decodeOk
                                        THEN Min2(settle + 1, SettleBound)
                                        ELSE 0
                ELSE /\ mode' = m
                     /\ UNCHANGED <<current_exposure, brightness, settle>>
    /\ UNCHANGED <<prodVars, workVars, lockVars, diskVars, histVars, flushVars>>

\* camera_task alone, started on an empty store
ExpInit == Init /\ Present(store) = {}

ExpSpec == ExpInit /\ [][ExposureCycle]_vars

(***************************************************************************)
(* The threads of the process.                                             *)
(***************************************************************************)
Worker(w) ==
    \/ W_check(w) \/ W_upload(w)
    \/ S_lock(w) \/ S_clean(w) \/ S_open(w) \/ S_write(w)
    \/ W_after(w)

Flush(c) ==
    \/ F_acquire(c) \/ F_list(c) \/ F_empty(c) \/ F_clear(c)
    \/ F_sort(c) \/ F_upload(c) \/ F_remove(c)

Next ==
    \/ CameraCycle
    \/ Dispatch
    \/ \E w \in Workers : Worker(w)
    \/ St_Check
    \/ Tr_Poll
    \/ \E c \in Callers : Flush(c)

Spec == Init /\ [][Next]_vars

(***************************************************************************)
(* Vocabulary of the properties.                                           *)
(***************************************************************************)
\* captured items that photo_queue accepted
Accepted == {i \in NewItems : i <= MaxOld + captured} \ dropped

\* still in memory: in photo_queue, submitted to the executor, or with a worker
InMemory(i) ==
    \/ i \in SeqToSet(photo_queue)
    \/ i \in SeqToSet(execQ)
    \/ \E w \in Workers : wItem[w] = i

\* removed from photo_queue and neither delivered nor persisted yet
InFlight == Len(execQ) + Cardinality({w \in Workers : wpc[w] # "idle"})

\* the caller is inside flush_to_server, past the acquire of flush_lock
InDrain(c) == fpc[c] \in {"f_list", "f_empty", "f_clear", "f_sort", "f_upload", "f_remove"}

\* no thread is inside save or flush_to_server, or about to call them
Quiescent ==
    /\ photo_queue = <<>>
    /\ execQ = <<>>
    /\ \A w \in Workers : wpc[w] = "idle"
    /\ fpc["tr"] = "poll"
    /\ fpc["st"] \in {"netwait", "finished", "dead"}

(***************************************************************************)
(* C1. No silent loss: an item that photo_queue accepted is in memory, or  *)
(* was accepted by the endpoint with its payload, or is a file of the      *)
(* store; it is in none of these only after _cleanup evicted its file or   *)
(* save's write failed.  ("Exactly one" is read here as "at least       *)
(* one": the weaker reading is already violated.)                          *)
(***************************************************************************)
C1_NoSilentLoss ==
    \A i \in Accepted :
        \/ InMemory(i)
        \/ i \in delivered
        \/ store[i] # "none"
        \/ i \in evicted
        \/ i \in writeFailed

(***************************************************************************)
(* C2. Eventual redelivery, as the safety property it implies: the process *)
(* never comes to rest with an entry in the store, degraded_mode False and *)
(* has_files False.  From such a state, with every upload succeeding, no   *)
(* item is saved again, has_files stays False, neither caller invokes      *)
(* flush_to_server, and the entry is never delivered.                      *)
(***************************************************************************)
C2_NoStrandedEntry ==
    ~ (Quiescent /\ Present(store) # {} /\ ~has_files /\ ~degraded_mode)

(***************************************************************************)
(* C3. Drain is exclusive: at most one caller is inside the drain, it is   *)
(* the holder of flush_lock, and a call that finds flush_lock taken        *)
(* returns at once and changes nothing but its own position.               *)
(***************************************************************************)
C3_AtMostOneDrain ==
    /\ Cardinality({c \in Callers : InDrain(c)}) <= 1
    /\ \A c \in Callers : InDrain(c) => flush_lock = c

C3_RefusedCallDoesNothing ==
    \A c \in Callers :
        (fpc[c] = "f_acq" /\ flush_lock # "free" /\ fpc'[c] # "f_acq")
        => /\ fpc'[c] = Ret(c)
           /\ UNCHANGED <<store, mtime, delivered, degraded_mode, has_files,
                          flush_lock, fNames, fTarget, fAttempt>>

C3_DrainExclusive == [](C3_AtMostOneDrain) /\ [][C3_RefusedCallDoesNothing]_vars

\* a caller is about to be refused while the other one drains
C3_Witness ==
    \E c, d \in Callers :
        c # d /\ fpc[c] = "f_upload" /\ fpc[d] = "f_acq" /\ Present(store) # {}

(***************************************************************************)
(* C4. Drain order is oldest-first: the entry a drain iteration picks has  *)
(* the least mtime of the names it listed, and every attempt of the        *)
(* iteration is for that entry; the entries one drain removes follow each  *)
(* other in non-decreasing order of the mtime they were sorted by, also    *)
(* while workers save; a drain during which no upload failed and no save   *)
(* ran ends with the directory empty and degraded_mode False.              *)
(***************************************************************************)
C4_TargetsOldest ==
    \A c \in Callers :
        /\ (fpc[c] = "f_sort" /\ fpc'[c] = "f_upload")
           => /\ fTarget'[c] \in fNames[c]
              /\ \A y \in fNames[c] : mtime[fTarget'[c]] <= mtime[y]
        /\ (fpc[c] \in {"f_upload", "f_remove"} /\ fpc'[c] \in {"f_upload", "f_remove"})
           => fTarget'[c] = fTarget[c]

C4_RemovalOrder ==
    \A c \in Callers :
        (fpc[c] = "f_remove" /\ fpc'[c] = "f_list") => dLast <= dCur

C4_CleanRunEmpties ==
    \A c \in Callers :
        (InDrain(c) /\ ~InDrain(c)' /\ ~dDirty /\ ~dFailed)
        => /\ fpc[c] = "f_clear"
           /\ Present(store') = {}
           /\ ~degraded_mode'

C5_ClearedOnlyWhenEmpty ==
    [][(degraded_mode /\ ~degraded_mode') => Present(store) = {}]_vars

(***************************************************************************)
(* C6. Degraded mode means persist immediately: a worker that read         *)
(* degraded_mode as True calls upload_once for no attempt, is inside save  *)
(* or past it, ends only after save returned, and degraded_mode stays True *)
(* for as long as it works on the item.                                    *)
(***************************************************************************)
C6_DegradedWorkerState ==
    \A w \in Workers :
        wDeg[w] => /\ wpc[w] \in {"s_lock", "s_clean", "s_open", "s_write", "saved"}
                   /\ wAttempt[w] = 0
                   /\ degraded_mode

C6_DegradedWorkerSteps ==
    \A w \in Workers :
        wDeg[w] => /\ wpc'[w] # "upload"
                   /\ wAttempt'[w] = 0
                   /\ degraded_mode'
                   /\ (wpc'[w] = "idle" => wpc[w] = "saved")

C6_DegradedPersists == [](C6_DegradedWorkerState) /\ [][C6_DegradedWorkerSteps]_vars

\* a worker on the degraded path whose save has returned
C6_Witness ==
    \E w \in Workers : wDeg[w] /\ wpc[w] = "saved" /\ store[wItem[w]] = "full"

(***************************************************************************)
(* C7.  photo_queue never holds more than MAX_CACHED_PHOTOS items.  The    *)
(* producer's offer never waits: a capture cycle can always be taken.  An  *)
(* offer to a full queue discards the new item and leaves the queue's      *)
(* content and order as they were; an offer to a queue with room appends   *)
(* the item at the end.  Items leave the queue from the front only, in the *)
(* order in which they were accepted.                                      *)
(***************************************************************************)
C7_Bounded ==
    /\ Len(photo_queue) <= MAX_CACHED_PHOTOS
    /\ (captured < MaxItems => ENABLED CameraCycle)

C7_OfferStep ==
    captured' = captured + 1 =>
        LET item == MaxOld + captured + 1 IN
        IF Len(photo_queue) = MAX_CACHED_PHOTOS
        THEN photo_queue' = photo_queue /\ dropped' = dropped \cup {item}
        ELSE photo_queue' = Append(photo_queue, item) /\ dropped' = dropped

C7_DequeueStep ==
    (captured' = captured /\ photo_queue' # photo_queue) =>
        /\ photo_queue # <<>>
        /\ photo_queue' = Tail(photo_queue)
        /\ execQ' = Append(execQ, Head(photo_queue))

C7_DropNewest ==
    /\ [](C7_Bounded)
    /\ [][C7_OfferStep]_vars
    /\ [][C7_DequeueStep]_vars

\* three offers and no dequeue: the first two items are queued in order, the
\* third one is discarded
C7_Witness ==
    /\ captured = MAX_CACHED_PHOTOS + 1
    /\ photo_queue = [k \in 1..MAX_CACHED_PHOTOS |-> MaxOld + k]
    /\ dropped = {MaxOld + MAX_CACHED_PHOTOS + 1}
    /\ execQ = <<>>
    /\ \A w \in Workers : wpc[w] = "idle"

(***************************************************************************)
(* C8.  The items that left photo_queue and are neither delivered nor      *)
(* persisted yet are never more than UPLOAD_WORKERS: an item leaves the    *)
(* queue only when a worker is free to process it.                         *)
(***************************************************************************)
C8_OnePerWorker == InFlight <= UPLOAD_WORKERS

(***************************************************************************)
(* C9.  As stated: when a save returns whose _cleanup was stopped by no    *)
(* failed delete, the free-space ratio is at least the reserve ratio.      *)
(***************************************************************************)
C9_SaveReturns(w) == wpc[w] = "s_write" /\ wpc'[w] = "saved" /\ ~wDelFail[w]

C10_EmptyRun(c) == fpc[c] \in {"f_empty", "f_clear"} /\ dLast = -1

C10_Returns(c) ==
    C10_EmptyRun(c) /\ fpc[c] = "f_clear" /\ fpc'[c] # "f_clear"

C10_EmptyDrainKeepsFlag ==
    [][\A c \in Callers : (C10_Returns(c) /\ Present(store) = {}) =>
          degraded_mode' = degraded_mode]_vars

(***************************************************************************)
(* C10, amended.  A call of flush_to_server whose first listing is empty   *)
(* makes no delivery attempt, removes nothing, releases flush_lock and     *)
(* returns with degraded_mode False, whatever the flag was before.         *)
(***************************************************************************)
C10_NoAttempt ==
    \A c \in Callers : C10_EmptyRun(c) => (~dTried /\ flush_lock = c)

C10_ReturnStep ==
    \A c \in Callers : C10_Returns(c) =>
        /\ ~degraded_mode'
        /\ store' = store
        /\ delivered' = delivered
        /\ flush_lock' = "free"

C10_EmptyDrainClearsFlag ==
    /\ [](C10_NoAttempt)
    /\ [][C10_ReturnStep]_vars

\* the call is about to return from an empty store with the flag still True
C10_Witness ==
    \E c \in Callers :
        /\ C10_EmptyRun(c)
        /\ fpc[c] = "f_clear"
        /\ degraded_lock = 0
        /\ degraded_mode
        /\ Present(store) = {}

(***************************************************************************)
(* C11.  When its wait for the network ends, startup_logic calls           *)
(* flush_to_server whatever has_files is; so once startup_logic has        *)
(* finished on a store that was empty, with no item captured yet,          *)
(* degraded_mode is False.                                                 *)
(***************************************************************************)
C11_AlwaysCalls ==
    (fpc["st"] = "netwait" /\ fpc'["st"] # "netwait") => fpc'["st"] = "f_acq"

C11_ClearedAfterStartup ==
    (fpc["st"] = "finished" /\ captured = 0 /\ Present(store) = {}
        /\ delivered = {}) => ~degraded_mode

C11_StartupForcesDrain ==
    /\ [](C11_ClearedAfterStartup)
    /\ [][C11_AlwaysCalls]_vars

(***************************************************************************)
(* C12.  camera_task waits for nothing that delivery holds: whatever the   *)
(* queue, the workers, the drain and the three locks are doing, the next   *)
(* capture cycle can be taken, and with camera_task scheduled fairly (and  *)
(* no other thread scheduled at all, if it so happens) every capture cycle *)
(* that the model follows is completed.                                    *)
(***************************************************************************)
\* camera_task is scheduled fairly; no other thread is promised anything
CamFairSpec == Spec /\ WF_vars(CameraCycle)

C12_NextCycleReady == captured < MaxItems => ENABLED CameraCycle

C13_ModeHysteresis ==
    [][(brightness' >= BRIGHTNESS_LOW_THRESHOLD
            /\ brightness' <= BRIGHTNESS_HIGH_THRESHOLD) => mode' = mode]_vars

\* MANUAL at the least exposure after a frame of brightness
\* BRIGHTNESS_HIGH_THRESHOLD: the mode was MANUAL before and has stayed so
C13_Witness ==
    /\ mode = "MANUAL"
    /\ current_exposure = MIN_EXPOSURE
    /\ brightness = BRIGHTNESS_HIGH_THRESHOLD

(***************************************************************************)
(* C14.  As stated: in MANUAL mode under any fixed scene whose brightness  *)
(* increases with the exposure, SettleBound adjustment cycles bring the    *)
(* brightness within BRIGHTNESS_DEADBAND of TARGET_BRIGHTNESS.             *)
(***************************************************************************)
InDeadband(b) == Abs(b - TARGET_BRIGHTNESS) < BRIGHTNESS_DEADBAND

C14_Settled(sc) ==
    (scene = sc /\ mode = "MANUAL" /\ settle = SettleBound) =>
        InDeadband(SceneBrightness(sc, current_exposure))

Proportional(sc) == sc \in 1..5

WithinReach(sc) ==
    /\ SceneBrightness(sc, MIN_EXPOSURE) < TARGET_BRIGHTNESS + BRIGHTNESS_DEADBAND
    /\ SceneBrightness(sc, MAX_EXPOSURE) > TARGET_BRIGHTNESS - BRIGHTNESS_DEADBAND

C14_StepLimited ==
    (mode = "MANUAL" /\ mode' = "MANUAL" /\ active_res = "set") =>
        /\ 100 * current_exposure' <= (100 + STEP_SPEED_UP_PCT) * current_exposure
        /\ 100 * current_exposure' >= (100 - STEP_SPEED_DOWN_PCT) * current_exposure

C20_ExposureInRange ==
    MIN_EXPOSURE <= current_exposure /\ current_exposure <= MAX_EXPOSURE

\* a dark frame at the greatest exposure: the step up was cut at MAX_EXPOSURE
C20_Witness ==
    /\ mode = "MANUAL"
    /\ current_exposure = MAX_EXPOSURE
    /\ brightness >= 0
    /\ brightness <= TARGET_BRIGHTNESS - BRIGHTNESS_DEADBAND

(***************************************************************************)
(* C15.  As stated: a worker that read degraded_mode as False calls        *)
(* upload_once at most UPLOAD_RETRIES times and stops at the first         *)
(* success, which touches neither the store nor degraded_mode; when every  *)
(* attempt has failed it calls save and then sets degraded_mode True; and  *)
(* when it finishes after a successful write, its item is a file of the    *)
(* store unless a drain removed it.                                        *)
(***************************************************************************)
\* a worker on the normal path, with its item
C15_Normal(w) == wpc[w] # "idle" /\ ~wDeg[w]

C15_Attempts ==
    \A w \in Workers : C15_Normal(w) =>
        /\ wAttempt[w] <= UPLOAD_RETRIES
        /\ (wpc[w] = "upload" => wAttempt[w] < UPLOAD_RETRIES)
        /\ (wpc[w] # "upload" => wAttempt[w] = UPLOAD_RETRIES)

C15_UploadSteps ==
    \A w \in Workers : (C15_Normal(w) /\ wpc[w] = "upload") =>
        /\ (wpc'[w] = "idle" =>
               /\ delivered' = delivered \cup {wItem[w]}
               /\ UNCHANGED <<store, has_files, degraded_mode, evicted, writeFailed>>)
        /\ (wpc'[w] \notin {"idle", "upload"} =>
               /\ wpc'[w] = "s_lock"
               /\ UNCHANGED <<store, has_files, degraded_mode, delivered>>)

C15_WriteStep ==
    \A w \in Workers : (C15_Normal(w) /\ wpc[w] = "s_write" /\ wpc'[w] = "saved") =>
        (wWritten'[w] > 0 => store'[wItem[w]] = "full")

C15_Finishes(w) == C15_Normal(w) /\ wpc[w] = "saved" /\ wpc'[w] = "idle"

\* only _cleanup and the drain remove files: a missing file that _cleanup did
\* not evict was removed by a drain
C15_FinishStepAsStated ==
    \A w \in Workers : C15_Finishes(w) =>
        /\ degraded_mode'
        /\ (wWritten[w] > 0 => (store[wItem[w]] = "full" \/ wItem[w] \notin evicted))

C15_RetryPolicyAsStated ==
    /\ [](C15_Attempts)
    /\ [][C15_UploadSteps]_vars
    /\ [][C15_WriteStep]_vars
    /\ [][C15_FinishStepAsStated]_vars

(***************************************************************************)
(* C15, amended.  The same, but for the end: a successful write makes the  *)
(* item a file of the store and degraded_mode is set True after it; when   *)
(* the worker finishes, the file can be gone again, removed by a drain or  *)
(* evicted by the _cleanup of another worker's save.                       *)
(***************************************************************************)
C15_FinishStep ==
    \A w \in Workers : C15_Finishes(w) => degraded_mode'

C15_RetryPolicy ==
    /\ [](C15_Attempts)
    /\ [][C15_UploadSteps]_vars
    /\ [][C15_WriteStep]_vars
    /\ [][C15_FinishStep]_vars

\* every attempt failed, the item is written, and the worker is about to set
\* degraded_mode, which a drain had cleared, to True
C15_Witness ==
    \E w \in Workers :
        /\ C15_Normal(w)
        /\ wpc[w] = "saved"
        /\ wAttempt[w] = UPLOAD_RETRIES
        /\ wWritten[w] > 0
        /\ store[wItem[w]] = "full"
        /\ ~degraded_mode

(***************************************************************************)
(* C16.  A drain makes at most FLUSH_RETRIES_PER_FILE attempts for an      *)
(* entry and removes an entry only after an attempt for it succeeded.      *)
(* When the last attempt for the entry fails the call returns at once: no  *)
(* further listing, no other entry attempted, the store, degraded_mode and *)
(* has_files as they were, and flush_lock released.                        *)
(***************************************************************************)
C16_Attempts ==
    \A c \in Callers :
        /\ fAttempt[c] <= FLUSH_RETRIES_PER_FILE
        /\ (fpc[c] \in {"f_upload", "f_remove"} <=> fAttempt[c] >= 1)
        /\ (fpc[c] = "f_remove" => dTried)

\* the caller takes a step
C16_Moves(c) == fpc'[c] # fpc[c] \/ fAttempt'[c] # fAttempt[c]

C16_RemovesAfterSuccess ==
    \A c \in Callers : (C16_Moves(c) /\ store' # store) =>
        /\ fpc[c] = "f_remove"
        /\ store' = [store EXCEPT ![fTarget[c]] = "none"]

C16_LastAttemptFails(c) ==
    /\ fpc[c] = "f_upload"
    /\ fAttempt[c] = FLUSH_RETRIES_PER_FILE
    /\ C16_Moves(c)
    /\ fpc'[c] # "f_remove"

C16_AbortStep ==
    \A c \in Callers : C16_LastAttemptFails(c) =>
        /\ fpc'[c] = Ret(c)
        /\ flush_lock' = "free"
        /\ UNCHANGED <<store, degraded_mode, has_files, delivered>>

C16_AbortsOnExhaustion ==
    /\ [](C16_Attempts)
    /\ [][C16_RemovesAfterSuccess]_vars
    /\ [][C16_AbortStep]_vars

\* the last attempt for the oldest entry is about to be made, the earlier ones
\* failed, and a second entry waits in the directory
C16_Witness ==
    \E c \in Callers :
        /\ fpc[c] = "f_upload"
        /\ fAttempt[c] = FLUSH_RETRIES_PER_FILE
        /\ dFailed
        /\ store[fTarget[c]] = "full"
        /\ Cardinality(Present(store)) >= 2

(***************************************************************************)
(* C17.  The drain's accesses to the store are serialized with save: when  *)
(* a drain reads and uploads an entry, or deletes one, no save holds       *)
(* op_lock, and so the entry is not one that a save is still writing.      *)
(***************************************************************************)
\* the caller reads and uploads its entry, or deletes it
C17_Accesses(c) ==
    /\ fpc[c] \in {"f_upload", "f_remove"}
    /\ C16_Moves(c)
    /\ store[fTarget[c]] # "none"

C17_NoAccessWhileWriting ==
    \A c \in Callers : C17_Accesses(c) => store[fTarget[c]] # "partial"

C17_Serialized == [][C17_NoAccessWhileWriting]_vars

(***************************************************************************)
(* C18.  Whenever no worker is inside save and no caller is inside         *)
(* flush_to_server, has_files is True if the store directory holds an      *)
(* entry.                                                                  *)
(***************************************************************************)
C18_NoCallInProgress ==
    /\ \A w \in Workers : wpc[w] \notin {"s_lock", "s_clean", "s_open", "s_write"}
    /\ \A c \in Callers : ~InDrain(c)

C18_FlagCatchesUp ==
    (C18_NoCallInProgress /\ Present(store) # {}) => has_files

(***************************************************************************)
(* C19.  _cleanup deletes nothing while the reserve is met and stops as    *)
(* soon as it is met; what it deletes is the entry of least modification   *)
(* time in the directory, so entries go in ascending order of age and none *)
(* goes while an older one remains; a delete that fails ends the loop,     *)
(* deletes nothing, and save goes on to its write.                         *)
(***************************************************************************)
\* worker w runs one iteration of _cleanup's loop
C19_Iterates(w) ==
    /\ wpc[w] = "s_clean"
    /\ (wpc'[w] # "s_clean" \/ wFiles'[w] # wFiles[w])

C19_CleanupStep ==
    \A w \in Workers : C19_Iterates(w) =>
        /\ (SpaceOk(store) => (store' = store /\ wpc'[w] = "s_open" /\ ~wDelFail'[w]))
        /\ (store' # store =>
               LET p == Head(wFiles[w]) IN
               /\ ~SpaceOk(store)
               /\ store' = [store EXCEPT ![p] = "none"]
               /\ evicted' = evicted \cup {p}
               /\ \A q \in Present(store) : mtime[q] >= mtime[p])
        /\ (wDelFail'[w] => (store' = store /\ wpc'[w] = "s_open"))
        /\ (store' = store => wpc'[w] = "s_open")

\* after a failed delete the worker is on its way to the write, or past it
C19_WriteStillAttempted ==
    \A w \in Workers :
        /\ (wDelFail[w] => wpc[w] \in {"s_open", "s_write", "saved"})
        /\ (wpc[w] = "s_open" => ENABLED S_open(w))

C19_OldestFirstMinimal ==
    /\ [](C19_WriteStillAttempted)
    /\ [][C19_CleanupStep]_vars

\* a delete failed with the reserve not met and younger entries left, and the
\* worker has gone on to write its item
C19_Witness ==
    \E w \in Workers :
        /\ wpc[w] = "s_write"
        /\ wDelFail[w]
        /\ evicted # {}
        /\ Cardinality(Present(store)) >= 2

(***************************************************************************)
(* C21.  In a cycle that starts and ends in MANUAL mode the exposure stays *)
(* as it is when the frame's brightness is less than BRIGHTNESS_DEADBAND   *)
(* away from TARGET_BRIGHTNESS; otherwise the new exposure is at least     *)
(* (1 - STEP_SPEED_DOWN) and at most (1 + STEP_SPEED_UP) times the old     *)
(* one, is not smaller when the frame is darker than the target and not    *)
(* larger when it is brighter.                                             *)
(***************************************************************************)
C21_ManualCycle ==
    /\ active_res = "set" /\ mode = "MANUAL" /\ mode' = "MANUAL"
    /\ brightness' # -1

C21_SlewStep ==
    C21_ManualCycle =>
        LET e == current_exposure
            e2 == current_exposure'
            b == brightness'
        IN /\ (Abs(b - TARGET_BRIGHTNESS) < BRIGHTNESS_DEADBAND => e2 = e)
           /\ e * (100 - STEP_SPEED_DOWN_PCT) <= e2 * 100
           /\ e2 * 100 <= e * (100 + STEP_SPEED_UP_PCT)
           /\ (b < TARGET_BRIGHTNESS => e2 >= e)
           /\ (b > TARGET_BRIGHTNESS => e2 <= e)

C21_DeadbandAndSlew == [][C21_SlewStep]_vars

\* the first MANUAL cycle on a dark frame has raised the exposure from
\* MIN_EXPOSURE by the whole step allowed, and no further
C21_Witness ==
    /\ mode = "MANUAL"
    /\ settle = 1
    /\ brightness <= TARGET_BRIGHTNESS - BRIGHTNESS_DEADBAND
    /\ current_exposure = MIN_EXPOSURE + (MIN_EXPOSURE * STEP_SPEED_UP_PCT) \div 100

(***************************************************************************)
(* C22.  In one cycle AUTO becomes MANUAL exactly when the brightness is   *)
(* below BRIGHTNESS_LOW_THRESHOLD, and the exposure is then MIN_EXPOSURE;  *)
(* MANUAL becomes AUTO exactly when the brightness is above                *)
(* BRIGHTNESS_HIGH_THRESHOLD and the exposure is MIN_EXPOSURE; otherwise   *)
(* the mode stays.  A frame that does not decode counts as                 *)
(* TARGET_BRIGHTNESS and changes neither the mode nor the exposure.        *)
(***************************************************************************)
\* the means a frame taken in this state can have
C22_Means == Measured \cup {SceneBrightness(sc, current_exposure) : sc \in Scenes}

\* what the regulation makes of every frame that can be taken in this state
C22_Decoded ==
    \A mean \in C22_Means :
        LET b == GetBrightness(mean, TRUE)
            m2 == Regulate(mode, current_exposure, b)[1]
        IN IF mode = "AUTO"
           THEN IF b < BRIGHTNESS_LOW_THRESHOLD
                THEN Regulate(mode, current_exposure, b) = <<"MANUAL", MIN_EXPOSURE>>
                ELSE m2 = "AUTO"
           ELSE IF b > BRIGHTNESS_HIGH_THRESHOLD /\ current_exposure = MIN_EXPOSURE
                THEN m2 = "AUTO"
                ELSE m2 = "MANUAL"

\* and of every frame that does not decode
C22_Undecoded ==
    \A mean \in Measured :
        LET b == GetBrightness(mean, FALSE)
        IN /\ b = TARGET_BRIGHTNESS
           /\ Regulate(mode, current_exposure, b) = <<mode, current_exposure>>

C22_Function == C22_Decoded /\ C22_Undecoded

\* what a cycle that changed the mode has done
C22_Step ==
    mode' # mode =>
        IF mode = "AUTO"
        THEN /\ mode' = "MANUAL"
             /\ brightness' < BRIGHTNESS_LOW_THRESHOLD
             /\ current_exposure' = MIN_EXPOSURE
        ELSE /\ mode' = "AUTO"
             /\ brightness' > BRIGHTNESS_HIGH_THRESHOLD
             /\ current_exposure = MIN_EXPOSURE

C22_ModeTransitions ==
    /\ [](C22_Function)
    /\ [][C22_Step]_vars

\* MANUAL at MIN_EXPOSURE after a frame darker than the deadband: a MANUAL
\* cycle would have raised the exposure, so the last frame taken switched the
\* mode from AUTO
C22_Witness ==
    /\ mode = "MANUAL"
    /\ current_exposure = MIN_EXPOSURE
    /\ brightness >= 0
    /\ brightness <= TARGET_BRIGHTNESS - BRIGHTNESS_DEADBAND

(***************************************************************************)
(* C23.  No set of threads waits in a circle for degraded_lock, op_lock    *)
(* and flush_lock: whoever holds a lock can take a step, or waits for a    *)
(* lock whose holder can; every step of a holder brings it nearer to the   *)
(* release, so that a thread waiting for a lock gets it once the threads   *)
(* before it have run; a call that finds flush_lock taken returns.         *)
(***************************************************************************)
\* worker w is at "with self.op_lock" and another thread holds it
C23_WaitsOp(w) == wpc[w] = "s_lock" /\ op_lock # 0

\* worker w is at one of its "with degraded_lock" and another thread holds it
C23_WaitsDegraded(w) ==
    /\ degraded_lock # 0
    /\ \/ wpc[w] = "idle" /\ execQ # <<>>
       \/ wpc[w] = "saved" /\ ~wDeg[w]

\* caller c is at the drain's "with degraded_lock" and a worker holds it
C23_DrainWaits(c) == fpc[c] = "f_clear" /\ degraded_lock # 0

\* the holder of op_lock waits for nothing
C23_OpHolderRuns ==
    op_lock # 0 =>
        /\ wpc[op_lock] \in {"s_clean", "s_open", "s_write"}
        /\ ENABLED Worker(op_lock)

\* the holder of degraded_lock waits for nothing but op_lock, held by another
C23_DegradedHolderRuns ==
    degraded_lock # 0 =>
        /\ wDeg[degraded_lock]
        /\ wpc[degraded_lock] \in {"s_lock", "s_clean", "s_open", "s_write", "saved"}
        /\ \/ ENABLED Worker(degraded_lock)
           \/ C23_WaitsOp(degraded_lock) /\ op_lock # degraded_lock

\* the holder of flush_lock waits for nothing but degraded_lock
C23_FlushHolderRuns ==
    flush_lock # "free" =>
        \/ ENABLED Flush(flush_lock)
        \/ C23_DrainWaits(flush_lock)

\* No thread waits for a lock it holds itself, nor holds a lock that a thread
\* it waits for is waiting for; a call at flush_lock.acquire(blocking=False)
\* never waits.
C23_NoWaitCycle ==
    /\ C23_OpHolderRuns
    /\ C23_DegradedHolderRuns
    /\ C23_FlushHolderRuns
    /\ \A w \in Workers : C23_WaitsOp(w) => op_lock # w
    /\ \A w \in Workers : C23_WaitsDegraded(w) => (degraded_lock # w /\ op_lock # w)
    /\ \A c \in Callers : fpc[c] = "f_acq" => ENABLED F_acquire(c)

\* the steps worker w has still to take, at most, before it holds no lock
C23_StepsToRelease(w) ==
    CASE wpc[w] = "s_lock" -> Cardinality(Items) + 5
      [] wpc[w] = "s_clean" -> Len(wFiles[w]) + 4
      [] wpc[w] = "s_open" -> 3
      [] wpc[w] = "s_write" -> 2
      [] wpc[w] = "saved" -> 1
      [] OTHER -> 0

\* a step of a worker that holds a lock brings it nearer to the release, and
\* at the end of the count it holds none
C23_HolderAdvances ==
    \A w \in Workers :
        /\ ((op_lock = w \/ degraded_lock = w)
               /\ (wpc'[w] # wpc[w] \/ wFiles'[w] # wFiles[w])
             => C23_StepsToRelease(w)' < C23_StepsToRelease(w))
        /\ (C23_StepsToRelease(w)' = 0 => (op_lock' # w /\ degraded_lock' # w))

C23_NoDeadlock ==
    /\ [](C23_NoWaitCycle)
    /\ [][C23_HolderAdvances]_vars

\* the longest chain of waits: a drain at its "with degraded_lock", the worker
\* that holds degraded_lock at "with self.op_lock", another worker inside save
C23_Witness ==
    \E c \in Callers, w \in Workers :
        /\ flush_lock = c
        /\ C23_DrainWaits(c)
        /\ degraded_lock = w
        /\ C23_WaitsOp(w)

(***************************************************************************)
(* C24.  No failure inside a drain leaves flush_to_server as an exception, *)
(* also when _cleanup removes an entry that the drain has listed and has   *)
(* not yet sorted, read or deleted: flush_trigger_loop is never ended by   *)
(* one and goes on polling has_files.                                      *)
(***************************************************************************)
C24_SweeperNeverDies == fpc["tr"] # "dead"

(***************************************************************************)
(* C25.  flush_lock is held exactly while its holder is inside             *)
(* flush_to_server past the acquire; every way out of such a call, by the  *)
(* empty listing, by the attempts used up or by an exception, releases it, *)
(* so a call made while no drain is running takes the lock and starts one. *)
(***************************************************************************)
C25_HeldInside ==
    /\ flush_lock # "free" => InDrain(flush_lock)
    /\ \A c \in Callers : InDrain(c) => flush_lock = c
    /\ \A c \in Callers :
          (fpc[c] = "f_acq" /\ \A d \in Callers : ~InDrain(d)) => flush_lock = "free"

C25_ExitReleases ==
    \A c \in Callers :
        (InDrain(c) /\ ~InDrain(c)') =>
            /\ flush_lock = c
            /\ flush_lock' = "free"
            /\ fpc'[c] \in {Ret(c), "dead"}

\* a call that finds the lock free and no drain running starts a drain
C25_NewDrainStarts ==
    \A c \in Callers :
        (fpc[c] = "f_acq" /\ fpc'[c] # "f_acq" /\ \A d \in Callers : ~InDrain(d)) =>
            (InDrain(c)' /\ flush_lock' = c)

C25_NeverLeaked ==
    /\ [](C25_HeldInside)
    /\ [][C25_ExitReleases /\ C25_NewDrainStarts]_vars

\* one caller's drain ended by an exception, and the other caller has taken
\* flush_lock since and is draining
C25_Witness ==
    \E c \in Callers, d \in Callers :
        /\ fpc[c] = "dead"
        /\ flush_lock = d
        /\ fpc[d] = "f_upload"

====
